---- MODULE Spec2Model ----
(***************************************************************************)
(* A model of TaskCPP.h: the TaskPriority enum, the Task wrapper (one       *)
(* FreeRTOS task handle per object) and TaskClass (virtual task() run by    *)
(* the static trampoline taskfun).                                          *)
(*                                                                          *)
(* The FreeRTOS primitives the header calls (xTaskCreate, vTaskDelete,      *)
(* vTaskSuspend, vTaskResume, vTaskPrioritySet, vTaskDelay) are the         *)
(* environment: each is modelled at its call site by its documented effect  *)
(* on the task table.  The header's own statements are the actions.         *)
(*                                                                          *)
(* Every Task object o has an owning context that constructs it, calls its  *)
(* members and destroys it; the task created for o runs concurrently with   *)
(* that context, so the destructor's test of `handle` and its call of       *)
(* vTaskDelete are separate steps, and so are the trampoline's clearing of  *)
(* `handle` and its vTaskDelete(0).                                         *)
(***************************************************************************)
EXTENDS Integers, FiniteSets, Sequences

\* ------------------------------------------------------------------ bounds
NumSlots == 2      \* tasks the kernel's heap has room for
LifeLevels == 2    \* largest configMAX_PRIORITIES tried with running tasks (Spec)
MaxLevels == 10    \* largest configMAX_PRIORITIES tried before the scheduler starts (SpecPrio)
MaxDtorRuns == 2   \* destructor runs on one object (SpecTwice only)

\* Two Task objects: what the single-owner property (no two objects hold one
\* handle) and the reuse of a freed slot need; objects interact in no other way.
Objs == {1, 2}
Slots == 1..NumSlots          \* non-null TaskHandle_t values the kernel hands out
NULL == 0                     \* the absent handle
Wild == NumSlots + 1          \* a bit pattern that never was a task handle
HandleValues == {NULL, Wild} \cup Slots

VARIABLES
  INCLUDE_vTaskDelete,   \* FreeRTOSConfig.h: vTaskDelete compiled in
  configMAX_PRIORITIES,  \* FreeRTOSConfig.h: number of priority levels
  life,      \* life[o]: "unconstructed" | "constructed" | "destructing" | "destroyed"
  kind,      \* kind[o]: "Task" (user function) | "TaskClass" (trampoline)
  handle,    \* handle[o]: Task::handle
  tested,    \* tested[o]: the value ~Task read in `if(handle)`
  created,   \* created[o]: the slot xTaskCreate gave o's task (NULL: none)
  tpc,       \* tpc[o]: where o's task is: "none" | "entry" | "task" | "returned"
             \*         | "cleared" | "loop" | "delaying" | "deleted"
  tsusp,     \* tsusp[o]: o's task is suspended
  tprio,     \* tprio[o]: the priority of o's task
  owner,     \* owner[o]: the context that owns o: "running" | "suspended" | "deleted"
  fault,     \* a kernel primitive was handed a handle that is no task
  selfDel,   \* selfDel[o]: o's trampoline has called vTaskDelete(0)
  dtorCalls, \* dtorCalls[o]: vTaskDelete calls issued by o's destructor
  hits,      \* hits[o]: vTaskDelete calls that targeted the task created for o
  staleDel,  \* staleDel[o]: o's destructor passed vTaskDelete a handle whose task was gone
  dtorRuns,  \* dtorRuns[o]: times o's destructor has run
  eolFirst,  \* eolFirst[o]: o's destructor started after the trampoline's end of life
  parm,      \* parm[o]: the void* handed to xTaskCreate for o's task (an object, or NULL)
  ownerPrio, \* ownerPrio[o]: the priority of the context that owns o
  sched,     \* the scheduler has been started
  ctorBlocked, \* ctorBlocked[o]: o's creator blocked inside the constructor chain
  step       \* the last step: the operation, its object, the kernel calls it issued
             \* (in order) and the value it returned

vars == <<INCLUDE_vTaskDelete, configMAX_PRIORITIES, life, kind, handle, tested,
          created, tpc, tsusp, tprio, owner, fault, selfDel, dtorCalls, hits,
          staleDel, dtorRuns, eolFirst, parm, ownerPrio, sched, ctorBlocked, step>>

config == <<INCLUDE_vTaskDelete, configMAX_PRIORITIES>>
history == <<selfDel, dtorCalls, hits, staleDel, dtorRuns, eolFirst>>
env == <<sched, ctorBlocked>>

\* the record of one step
Log(op, o, calls, ret) == step' = [op |-> op, obj |-> o, calls |-> calls, ret |-> ret]
NoStep == [op |-> "none", obj |-> 0, calls |-> <<>>, ret |-> <<>>]

\* ------------------------------------------------------- TaskPriority enum
BoolToInt(b) == IF b THEN 1 ELSE 0

TaskPrio_Idle == 0
TaskPrio_Low == BoolToInt(configMAX_PRIORITIES > 1)
\* mutant: the HMI tier always one above Low
TaskPrio_HMI_Always == TaskPrio_Low + 1
TaskPrio_HMI == TaskPrio_Low + BoolToInt(configMAX_PRIORITIES > 5)
TaskPrio_Mid == configMAX_PRIORITIES \div 2
\* mutant: the High tier steps down one level too late (> 5)
TaskPrio_High_Late == configMAX_PRIORITIES - 1 - BoolToInt(configMAX_PRIORITIES > 5)
\* mutant: the High tier steps down as soon as there are two levels (> 1)
TaskPrio_High_Early == configMAX_PRIORITIES - 1 - BoolToInt(configMAX_PRIORITIES > 1)
TaskPrio_High == configMAX_PRIORITIES - 1 - BoolToInt(configMAX_PRIORITIES > 4)
TaskPrio_Highest == configMAX_PRIORITIES - 1

\* the six enumerators in declaration order
TaskPriority == <<TaskPrio_Idle, TaskPrio_Low, TaskPrio_HMI, TaskPrio_Mid,
                  TaskPrio_High, TaskPrio_Highest>>
Tiers == 1..6
\* every value the kernel takes as a priority
Ordinals == 0..(configMAX_PRIORITIES - 1)

\* ------------------------------------------------------------ task table
Alive(o) == tpc[o] \notin {"none", "deleted"}
\* the objects whose task is the live task at slot h (at most one)
TaskAt(h) == {o \in Objs : Alive(o) /\ created[o] = h}
FreeSlots == {h \in Slots : TaskAt(h) = {}}
LowestFree == CHOOSE h \in FreeSlots : \A g \in FreeSlots : h <= g


\* ------------------------------------------------------------------- Init
InitWith(levels, started, ownerLevels) ==
  /\ INCLUDE_vTaskDelete \in BOOLEAN
  /\ configMAX_PRIORITIES \in levels
  /\ sched = started
  /\ \E cp \in Ordinals \cap ownerLevels : ownerPrio = [o \in Objs |-> cp]
  /\ parm = [o \in Objs |-> NULL]
  /\ ctorBlocked = [o \in Objs |-> FALSE]
  /\ step = NoStep
  /\ life = [o \in Objs |-> "unconstructed"]
  /\ kind = [o \in Objs |-> "Task"]
  /\ handle = [o \in Objs |-> NULL]
  /\ tested = [o \in Objs |-> NULL]
  /\ created = [o \in Objs |-> NULL]
  /\ tpc = [o \in Objs |-> "none"]
  /\ tsusp = [o \in Objs |-> FALSE]
  /\ tprio = [o \in Objs |-> 0]
  /\ owner = [o \in Objs |-> "running"]
  /\ fault = FALSE
  /\ selfDel = [o \in Objs |-> FALSE]
  /\ dtorCalls = [o \in Objs |-> 0]
  /\ hits = [o \in Objs |-> 0]
  /\ staleDel = [o \in Objs |-> FALSE]
  /\ dtorRuns = [o \in Objs |-> 0]
  /\ eolFirst = [o \in Objs |-> FALSE]

\* the scheduler is running and the objects are built by tasks
Init == InitWith(1..LifeLevels, TRUE, {TaskPrio_Idle})

\* ------------------------------------------------- the kernel's primitives
\* mutant: every object is handed the first slot's handle, as a copied Task would be
xTaskCreate_Shared(o, pv, prio, ok, prior) ==
  IF ok /\ FreeSlots # {}
    THEN /\ handle' = [handle EXCEPT ![o] = 1]
         /\ created' = [created EXCEPT ![o] = LowestFree]
         /\ tpc' = [tpc EXCEPT ![o] = "entry"]
         /\ tprio' = [tprio EXCEPT ![o] = prio]
         /\ parm' = [parm EXCEPT ![o] = pv]
    ELSE /\ handle' = [handle EXCEPT ![o] = prior]
         /\ UNCHANGED <<created, tpc, tprio, parm>>

\* xTaskCreate(taskfun, name, stackDepth, parm, priority, &handle) called for
\* object o.  On success the new task is ready at its entry, holds parm as
\* the argument of its entry function (pv), and its handle is
\* stored through the out-parameter; on failure (always when the heap is
\* full) the kernel leaves the out-parameter alone, so `handle` keeps the
\* indeterminate value `prior` that the object's storage held (the
\* constructor never initialises it).
xTaskCreate(o, pv, prio, ok, prior) ==
  IF ok /\ FreeSlots # {}
    THEN /\ handle' = [handle EXCEPT ![o] = LowestFree]
         /\ created' = [created EXCEPT ![o] = LowestFree]
         /\ tpc' = [tpc EXCEPT ![o] = "entry"]
         /\ tprio' = [tprio EXCEPT ![o] = prio]
         /\ parm' = [parm EXCEPT ![o] = pv]
    ELSE /\ handle' = [handle EXCEPT ![o] = prior]
         /\ UNCHANGED <<created, tpc, tprio, parm>>

\* vTaskDelete(h) called from the context that owns o: NULL deletes the
\* caller, a live task's handle deletes that task, anything else is no task.
vTaskDelete(h, o) ==
  IF h = NULL
    THEN /\ owner' = [owner EXCEPT ![o] = "deleted"]
         /\ UNCHANGED <<tpc, tsusp, tprio, fault>>
    ELSE IF TaskAt(h) # {}
      THEN /\ tpc' = [t \in Objs |-> IF t \in TaskAt(h) THEN "deleted" ELSE tpc[t]]
           /\ tsusp' = [t \in Objs |-> IF t \in TaskAt(h) THEN FALSE ELSE tsusp[t]]
           /\ tprio' = [t \in Objs |-> IF t \in TaskAt(h) THEN 0 ELSE tprio[t]]
           /\ UNCHANGED <<owner, fault>>
      ELSE /\ fault' = TRUE
           /\ UNCHANGED <<tpc, tsusp, tprio, owner>>

\* vTaskSuspend(h) called from the context that owns o.
vTaskSuspend(h, o) ==
  IF h = NULL
    THEN /\ owner' = [owner EXCEPT ![o] = "suspended"]
         /\ UNCHANGED <<tsusp, fault>>
    ELSE IF TaskAt(h) # {}
      THEN /\ tsusp' = [t \in Objs |-> IF t \in TaskAt(h) THEN TRUE ELSE tsusp[t]]
           /\ UNCHANGED <<owner, fault>>
      ELSE /\ fault' = TRUE
           /\ UNCHANGED <<tsusp, owner>>

\* vTaskResume(h): a NULL handle or the caller's own is ignored.
vTaskResume(h) ==
  IF h = NULL
    THEN UNCHANGED <<tsusp, fault>>
    ELSE IF TaskAt(h) # {}
      THEN /\ tsusp' = [t \in Objs |-> IF t \in TaskAt(h) THEN FALSE ELSE tsusp[t]]
           /\ UNCHANGED fault
      ELSE /\ fault' = TRUE
           /\ UNCHANGED tsusp

\* vTaskPrioritySet(h, p) called from the context that owns o: NULL sets the
\* caller's priority.
vTaskPrioritySet(h, p, o) ==
  IF h = NULL
    THEN /\ ownerPrio' = [ownerPrio EXCEPT ![o] = p]
         /\ UNCHANGED <<tprio, fault>>
    ELSE IF TaskAt(h) # {}
      THEN /\ tprio' = [t \in Objs |-> IF t \in TaskAt(h) THEN p ELSE tprio[t]]
           /\ UNCHANGED <<ownerPrio, fault>>
      ELSE /\ fault' = TRUE
           /\ UNCHANGED <<tprio, ownerPrio>>

\* uxTaskPriorityGet(h) called from the context that owns o: the values it can
\* return (NULL reads the caller's priority; a handle that is no task reads
\* whatever lies there).
uxTaskPriorityGet(h, o) ==
  IF h = NULL THEN {ownerPrio[o]}
  ELSE IF TaskAt(h) # {} THEN {tprio[t] : t \in TaskAt(h)}
  ELSE Ordinals

pdFALSE == 0
pdTRUE == 1
\* xTaskResumeFromISR(h) when the interrupt has preempted a task of priority
\* cur: the values it can return.  A suspended task is made ready, and the
\* result is pdTRUE when that task should run in place of the interrupted one.
xTaskResumeFromISR(h, cur) ==
  IF h # NULL /\ TaskAt(h) # {}
    THEN {IF \E t \in TaskAt(h) : tsusp[t] /\ tprio[t] >= cur THEN pdTRUE ELSE pdFALSE}
    ELSE {pdFALSE, pdTRUE}

\* ------------------------------------------------------------ class Task
CanCall(o) == ~fault /\ owner[o] = "running"

\* mutant: the TaskClass constructor hands the kernel another object as context
CreationParm_Other(o, k) == IF k = "TaskClass" THEN CHOOSE q \in Objs : q # o ELSE NULL

\* The context argument of xTaskCreate: TaskClass passes `this`
\* (Task(name, &taskfun, priority, stackDepth, this)), a plain Task its parm,
\* by default 0.
CreationParm(o, k) == IF k = "TaskClass" THEN o ELSE NULL

\* mutant: a constructor that asks once more when xTaskCreate fails
Construct_Retry(o, k, tier, ok, prior) ==
  /\ CanCall(o)
  /\ life[o] = "unconstructed"
  /\ life' = [life EXCEPT ![o] = "constructed"]
  /\ kind' = [kind EXCEPT ![o] = k]
  /\ xTaskCreate(o, CreationParm(o, k), TaskPriority[tier], ok, prior)
  /\ LET call == <<"xTaskCreate", CreationParm(o, k), TaskPriority[tier]>>
     IN Log("Task", o, IF ok /\ FreeSlots # {} THEN <<call>> ELSE <<call, call>>, <<>>)
  /\ UNCHANGED <<config, env, ownerPrio, tested, tsusp, owner, fault, history>>

\* Task::Task / TaskClass::TaskClass: one xTaskCreate, its result ignored.
\* Taken as one step: the creator is not overtaken by the new task before the
\* constructor chain ends (SpecSched takes the chain apart).
Construct(o, k, tier, ok, prior) ==
  /\ CanCall(o)
  /\ life[o] = "unconstructed"
  /\ life' = [life EXCEPT ![o] = "constructed"]
  /\ kind' = [kind EXCEPT ![o] = k]
  /\ xTaskCreate(o, CreationParm(o, k), TaskPriority[tier], ok, prior)
  /\ Log("Task", o, <<<<"xTaskCreate", CreationParm(o, k), TaskPriority[tier]>>>>, <<>>)
  /\ UNCHANGED <<config, env, ownerPrio, tested, tsusp, owner, fault, history>>

\* TaskHandle_t getHandle() const
getHandle(o) == handle[o]

\* mutant: the destructor without its `if(handle)` test
DtorBody_NoTest(o) ==
  /\ dtorRuns' = [dtorRuns EXCEPT ![o] = @ + 1]
  /\ eolFirst' = [eolFirst EXCEPT ![o] = selfDel[o]]
  /\ IF INCLUDE_vTaskDelete
       THEN /\ life' = [life EXCEPT ![o] = "destructing"]
            /\ tested' = [tested EXCEPT ![o] = handle[o]]
       ELSE /\ life' = [life EXCEPT ![o] = "destroyed"]
            /\ UNCHANGED tested
  /\ Log("~Task", o, <<>>, <<>>)
  /\ UNCHANGED <<config, env, parm, ownerPrio, kind, handle, created, tpc, tsusp,
                 tprio, owner, fault, selfDel, dtorCalls, hits, staleDel>>

\* mutant: the destructor without its `#if INCLUDE_vTaskDelete`
DtorBody_NoIfdef(o) ==
  /\ dtorRuns' = [dtorRuns EXCEPT ![o] = @ + 1]
  /\ eolFirst' = [eolFirst EXCEPT ![o] = selfDel[o]]
  /\ IF handle[o] # NULL
       THEN /\ life' = [life EXCEPT ![o] = "destructing"]
            /\ tested' = [tested EXCEPT ![o] = handle[o]]
       ELSE /\ life' = [life EXCEPT ![o] = "destroyed"]
            /\ UNCHANGED tested
  /\ Log("~Task", o, <<>>, <<>>)
  /\ UNCHANGED <<config, env, parm, ownerPrio, kind, handle, created, tpc, tsusp,
                 tprio, owner, fault, selfDel, dtorCalls, hits, staleDel>>

\* ~Task, first half: `#if INCLUDE_vTaskDelete  if(handle)`.
DtorBody(o) ==
  /\ dtorRuns' = [dtorRuns EXCEPT ![o] = @ + 1]
  /\ eolFirst' = [eolFirst EXCEPT ![o] = selfDel[o]]
  /\ IF INCLUDE_vTaskDelete /\ handle[o] # NULL
       THEN /\ life' = [life EXCEPT ![o] = "destructing"]
            /\ tested' = [tested EXCEPT ![o] = handle[o]]
       ELSE /\ life' = [life EXCEPT ![o] = "destroyed"]
            /\ UNCHANGED tested
  /\ Log("~Task", o, <<>>, <<>>)
  /\ UNCHANGED <<config, env, parm, ownerPrio, kind, handle, created, tpc, tsusp,
                 tprio, owner, fault, selfDel, dtorCalls, hits, staleDel>>

DtorTest(o) ==
  /\ CanCall(o)
  /\ life[o] = "constructed"
  /\ DtorBody(o)

\* The destructor run again on an object already destroyed.
DtorAgain(o) ==
  /\ CanCall(o)
  /\ life[o] = "destroyed"
  /\ dtorRuns[o] < MaxDtorRuns
  /\ DtorBody(o)

\* mutant: a destructor that stores 0 in `handle` once it has deleted the task
DtorDelete_Clears(o) ==
  /\ CanCall(o)
  /\ life[o] = "destructing"
  /\ \E arg \in {tested[o], handle[o]} :
       /\ vTaskDelete(arg, o)
       /\ Log("~Task", o, <<<<"vTaskDelete", arg>>>>, <<>>)
       /\ hits' = [hits EXCEPT ![o] = IF arg # NULL /\ arg = created[o] THEN @ + 1 ELSE @]
       /\ staleDel' = [staleDel EXCEPT
                         ![o] = @ \/ (arg # NULL /\ ~(Alive(o) /\ created[o] = arg))]
  /\ dtorCalls' = [dtorCalls EXCEPT ![o] = @ + 1]
  /\ life' = [life EXCEPT ![o] = "destroyed"]
  /\ tested' = [tested EXCEPT ![o] = NULL]
  /\ handle' = [handle EXCEPT ![o] = NULL]
  /\ UNCHANGED <<config, env, parm, ownerPrio, kind, created, selfDel,
                 dtorRuns, eolFirst>>

\* ~Task, second half: `vTaskDelete(handle)`.  `handle` is a plain member
\* that the trampoline may write meanwhile, so the argument is the value the
\* test read or the value a second load finds.
DtorDelete(o) ==
  /\ CanCall(o)
  /\ life[o] = "destructing"
  /\ \E arg \in {tested[o], handle[o]} :
       /\ vTaskDelete(arg, o)
       /\ Log("~Task", o, <<<<"vTaskDelete", arg>>>>, <<>>)
       /\ hits' = [hits EXCEPT ![o] = IF arg # NULL /\ arg = created[o] THEN @ + 1 ELSE @]
       /\ staleDel' = [staleDel EXCEPT
                         ![o] = @ \/ (arg # NULL /\ ~(Alive(o) /\ created[o] = arg))]
  /\ dtorCalls' = [dtorCalls EXCEPT ![o] = @ + 1]
  /\ life' = [life EXCEPT ![o] = "destroyed"]
  /\ tested' = [tested EXCEPT ![o] = NULL]
  /\ UNCHANGED <<config, env, parm, ownerPrio, kind, handle, created, selfDel,
                 dtorRuns, eolFirst>>

\* void priority(TaskPriority priority)
PrioritySet(o, p) ==
  /\ CanCall(o)
  /\ life[o] = "constructed"
  /\ vTaskPrioritySet(handle[o], p, o)
  /\ Log("priority_set", o, <<<<"vTaskPrioritySet", handle[o], p>>>>, <<>>)
  /\ UNCHANGED <<config, env, parm, life, kind, handle, tested, created, tpc, tsusp,
                 owner, history>>

\* static_cast<TaskPriority>(v): a value in the enumeration's range (0 up to
\* the least 2^M - 1 that holds TaskPrio_Highest) is kept; the kernel reports
\* no other.
EnumRange == CHOOSE r \in {1, 2, 4, 8, 16, 32} :
               /\ r > TaskPrio_Highest
               /\ \A q \in {1, 2, 4, 8, 16, 32} : q > TaskPrio_Highest => r <= q
\* mutant: the result snapped down to the nearest named tier
StaticCastTaskPriority_Named(v) ==
  LET below == {TaskPriority[i] : i \in {j \in Tiers : TaskPriority[j] <= v}}
  IN CHOOSE t \in below : \A u \in below : u <= t
StaticCastTaskPriority(v) == v % EnumRange

\* TaskPriority priority() const
\* (line 153 lacks the parenthesis that closes static_cast<TaskPriority>( ;
\* the expression meant is static_cast<TaskPriority>(uxTaskPriorityGet(handle)))
PriorityGet(o) ==
  /\ CanCall(o)
  /\ life[o] = "constructed"
  /\ \E r \in uxTaskPriorityGet(handle[o], o) :
       Log("priority_get", o, <<<<"uxTaskPriorityGet", handle[o], r>>>>,
           <<StaticCastTaskPriority(r)>>)
  /\ fault' = (handle[o] # NULL /\ TaskAt(handle[o]) = {})
  /\ UNCHANGED <<config, env, parm, ownerPrio, life, kind, handle, tested, created,
                 tpc, tsusp, tprio, owner, history>>

\* TaskHandle_t getHandle() const, as a step of the owning context
GetHandle(o) ==
  /\ CanCall(o)
  /\ life[o] = "constructed"
  /\ Log("getHandle", o, <<>>, <<getHandle(o)>>)
  /\ UNCHANGED <<config, env, parm, ownerPrio, life, kind, handle, tested, created,
                 tpc, tsusp, tprio, owner, fault, history>>

\* mutant: the kernel's answer dropped, the ISR never asked to switch
ResumeISR_Drop(o) ==
  /\ ~fault
  /\ life[o] = "constructed"
  /\ \E cur \in Ordinals : \E sig \in xTaskResumeFromISR(handle[o], cur) :
       Log("resume_ISR", o, <<<<"xTaskResumeFromISR", handle[o], sig>>>>, <<FALSE>>)
  /\ IF handle[o] # NULL /\ TaskAt(handle[o]) # {}
       THEN /\ tsusp' = [t \in Objs |-> IF t \in TaskAt(handle[o]) THEN FALSE ELSE tsusp[t]]
            /\ UNCHANGED fault
       ELSE /\ fault' = TRUE
            /\ UNCHANGED tsusp
  /\ UNCHANGED <<config, env, parm, ownerPrio, life, kind, handle, tested, created,
                 tpc, tprio, owner, history>>

\* bool resume_ISR(), called from an interrupt that preempted a task of
\* priority cur: the BaseType_t the kernel returns is converted to bool.
ResumeISR(o) ==
  /\ ~fault
  /\ life[o] = "constructed"
  /\ \E cur \in Ordinals : \E sig \in xTaskResumeFromISR(handle[o], cur) :
       Log("resume_ISR", o, <<<<"xTaskResumeFromISR", handle[o], sig>>>>,
           <<sig # pdFALSE>>)
  /\ IF handle[o] # NULL /\ TaskAt(handle[o]) # {}
       THEN /\ tsusp' = [t \in Objs |-> IF t \in TaskAt(handle[o]) THEN FALSE ELSE tsusp[t]]
            /\ UNCHANGED fault
       ELSE /\ fault' = TRUE
            /\ UNCHANGED tsusp
  /\ UNCHANGED <<config, env, parm, ownerPrio, life, kind, handle, tested, created,
                 tpc, tprio, owner, history>>

\* void suspend()
Suspend(o) ==
  /\ CanCall(o)
  /\ life[o] = "constructed"
  /\ vTaskSuspend(handle[o], o)
  /\ Log("suspend", o, <<<<"vTaskSuspend", handle[o]>>>>, <<>>)
  /\ UNCHANGED <<config, env, parm, ownerPrio, life, kind, handle, tested, created,
                 tpc, tprio, history>>

\* void resume()
Resume(o) ==
  /\ CanCall(o)
  /\ life[o] = "constructed"
  /\ vTaskResume(handle[o])
  /\ Log("resume", o, <<<<"vTaskResume", handle[o]>>>>, <<>>)
  /\ UNCHANGED <<config, env, parm, ownerPrio, life, kind, handle, tested, created,
                 tpc, tprio, owner, history>>

\* ------------------------------------------------ the task created for o
Runs(o) == ~fault /\ Alive(o) /\ ~tsusp[o]

\* The kernel dispatches the new task: a TaskClass's trampoline calls task(),
\* a plain Task's user function starts.
TaskStart(o) ==
  /\ Runs(o)
  /\ tpc[o] = "entry"
  /\ tpc' = [tpc EXCEPT ![o] = "task"]
  /\ Log(IF kind[o] = "TaskClass" THEN "task" ELSE "user_function", parm[o], <<>>, <<>>)
  /\ UNCHANGED <<config, env, parm, ownerPrio, life, kind, handle, tested, created,
                 tsusp, tprio, owner, fault, history>>

\* task() returns to the trampoline.
TaskReturns(o) ==
  /\ Runs(o)
  /\ kind[o] = "TaskClass"
  /\ tpc[o] = "task"
  /\ tpc' = [tpc EXCEPT ![o] = "returned"]
  /\ Log("task_returns", parm[o], <<>>, <<>>)
  /\ UNCHANGED <<config, env, parm, ownerPrio, life, kind, handle, tested, created,
                 tsusp, tprio, owner, fault, history>>

\* mutant: the trampoline goes on to delete itself without clearing `handle`
TaskfunClear_Skip(o) ==
  /\ Runs(o)
  /\ INCLUDE_vTaskDelete
  /\ tpc[o] = "returned"
  /\ tpc' = [tpc EXCEPT ![o] = "cleared"]
  /\ Log("taskfun_clear", parm[o], <<>>, <<>>)
  /\ UNCHANGED <<config, env, parm, ownerPrio, life, kind, handle, tested, created,
                 tsusp, tprio, owner, fault, history>>

\* #if INCLUDE_vTaskDelete:  static_cast<TaskClass *>(parm)->handle = 0;
TaskfunClear(o) ==
  /\ Runs(o)
  /\ INCLUDE_vTaskDelete
  /\ tpc[o] = "returned"
  /\ handle' = [handle EXCEPT ![parm[o]] = NULL]
  /\ tpc' = [tpc EXCEPT ![o] = "cleared"]
  /\ Log("taskfun_clear", parm[o], <<>>, <<>>)
  /\ UNCHANGED <<config, env, parm, ownerPrio, life, kind, tested, created, tsusp,
                 tprio, owner, fault, history>>

\* vTaskDelete(0): the task deletes itself and never runs again.
TaskfunSelfDelete(o) ==
  /\ Runs(o)
  /\ INCLUDE_vTaskDelete
  /\ tpc[o] = "cleared"
  /\ tpc' = [tpc EXCEPT ![o] = "deleted"]
  /\ tprio' = [tprio EXCEPT ![o] = 0]
  /\ selfDel' = [selfDel EXCEPT ![o] = TRUE]
  /\ hits' = [hits EXCEPT ![o] = @ + 1]
  /\ Log("taskfun_delete", parm[o], <<<<"vTaskDelete", NULL>>>>, <<>>)
  /\ UNCHANGED <<config, env, parm, ownerPrio, life, kind, handle, tested, created,
                 tsusp, owner, fault, dtorCalls, staleDel, dtorRuns, eolFirst>>

\* #else:  while(1) vTaskDelay(portMAX_DELAY);  -- the call blocks the task
TaskfunDelay(o) ==
  /\ Runs(o)
  /\ ~INCLUDE_vTaskDelete
  /\ tpc[o] \in {"returned", "loop"}
  /\ tpc' = [tpc EXCEPT ![o] = "delaying"]
  /\ Log("taskfun_delay", parm[o], <<<<"vTaskDelay", "portMAX_DELAY">>>>, <<>>)
  /\ UNCHANGED <<config, env, parm, ownerPrio, life, kind, handle, tested, created,
                 tsusp, tprio, owner, fault, history>>

\* mutant: `if` for `while`: after one delay the entry function returns
TaskfunWake_FallOff(o) ==
  /\ Runs(o)
  /\ tpc[o] = "delaying"
  /\ tpc' = [tpc EXCEPT ![o] = "deleted"]
  /\ Log("taskfun_loop", parm[o], <<>>, <<>>)
  /\ UNCHANGED <<config, env, parm, ownerPrio, life, kind, handle, tested, created,
                 tsusp, tprio, owner, fault, history>>

\* portMAX_DELAY ticks have passed (or the delay was aborted): vTaskDelay
\* returns into the loop.
TaskfunWake(o) ==
  /\ Runs(o)
  /\ tpc[o] = "delaying"
  /\ tpc' = [tpc EXCEPT ![o] = "loop"]
  /\ Log("taskfun_loop", parm[o], <<>>, <<>>)
  /\ UNCHANGED <<config, env, parm, ownerPrio, life, kind, handle, tested, created,
                 tsusp, tprio, owner, fault, history>>

\* ------------------------------------------------------------------- Next
Kinds == {"Task", "TaskClass"}

Next ==
  \E o \in Objs :
    \/ \E k \in Kinds, tier \in Tiers, ok \in BOOLEAN, prior \in HandleValues :
         Construct(o, k, tier, ok, prior)
    \/ DtorTest(o)
    \/ DtorDelete(o)
    \/ \E p \in Ordinals : PrioritySet(o, p)
    \/ PriorityGet(o)
    \/ GetHandle(o)
    \/ Suspend(o)
    \/ Resume(o)
    \/ ResumeISR(o)
    \/ TaskStart(o)
    \/ TaskReturns(o)
    \/ TaskfunClear(o)
    \/ TaskfunSelfDelete(o)
    \/ TaskfunDelay(o)
    \/ TaskfunWake(o)

Spec == Init /\ [][Next]_vars

\* the same program with destructors that may be run again on a dead object
NextTwice == Next \/ \E o \in Objs : DtorAgain(o)

SpecTwice == Init /\ [][NextTwice]_vars

\* Objects built (and their priorities set) before the scheduler is started:
\* no task has run yet.
NextPrio ==
  \E o \in Objs :
    \/ \E k \in Kinds, tier \in Tiers, ok \in BOOLEAN, prior \in HandleValues :
         Construct(o, k, tier, ok, prior)
    \/ \E p \in Ordinals : PrioritySet(o, p)
    \/ PriorityGet(o)

SpecPrio == InitWith(1..MaxLevels, FALSE, {TaskPrio_Idle}) /\ [][NextPrio]_vars

\* ------------------------------------------- the constructor chain in steps
\* TaskClass::TaskClass reaches `Task(name, &taskfun, priority, stackDepth,
\* this)`: the task exists from here on, while the TaskClass constructor and
\* the constructors of the deriving classes are still to run.
CtorBegin(o, tier, ok, prior) ==
  /\ CanCall(o)
  /\ life[o] = "unconstructed"
  /\ life' = [life EXCEPT ![o] = "constructing"]
  /\ kind' = [kind EXCEPT ![o] = "TaskClass"]
  /\ xTaskCreate(o, CreationParm(o, "TaskClass"), TaskPriority[tier], ok, prior)
  /\ Log("Task", o, <<<<"xTaskCreate", CreationParm(o, "TaskClass"), TaskPriority[tier]>>>>,
         <<>>)
  /\ UNCHANGED <<config, env, ownerPrio, tested, tsusp, owner, fault, history>>

\* A constructor of the chain makes a blocking call: the creating task waits.
CtorBlock(o) ==
  /\ CanCall(o)
  /\ sched
  /\ life[o] = "constructing"
  /\ owner' = [owner EXCEPT ![o] = "blocked"]
  /\ ctorBlocked' = [ctorBlocked EXCEPT ![o] = TRUE]
  /\ Log("ctor_blocks", o, <<>>, <<>>)
  /\ UNCHANGED <<config, sched, parm, ownerPrio, life, kind, handle, tested, created,
                 tpc, tsusp, tprio, fault, history>>

\* The blocking call returns.
CtorWake(o) ==
  /\ ~fault
  /\ owner[o] = "blocked"
  /\ owner' = [owner EXCEPT ![o] = "running"]
  /\ Log("ctor_resumes", o, <<>>, <<>>)
  /\ UNCHANGED <<config, env, parm, ownerPrio, life, kind, handle, tested, created,
                 tpc, tsusp, tprio, fault, history>>

\* The most derived constructor's body ends: the object is complete.
CtorFinish(o) ==
  /\ CanCall(o)
  /\ life[o] = "constructing"
  /\ life' = [life EXCEPT ![o] = "constructed"]
  /\ Log("ctor_done", o, <<>>, <<>>)
  /\ UNCHANGED <<config, env, parm, ownerPrio, kind, handle, tested, created, tpc,
                 tsusp, tprio, owner, fault, history>>

\* vTaskStartScheduler(), called by main() between two constructions.
StartScheduler ==
  /\ ~fault
  /\ ~sched
  /\ \A o \in Objs : life[o] # "constructing"
  /\ sched' = TRUE
  /\ Log("vTaskStartScheduler", 0, <<>>, <<>>)
  /\ UNCHANGED <<config, ctorBlocked, parm, ownerPrio, life, kind, handle, tested,
                 created, tpc, tsusp, tprio, owner, fault, history>>

\* mutant: a scheduler that may hand the processor to any ready task
DispatchAllowed_Any(o) == sched
\* Strict-priority preemptive scheduling: no task runs before the scheduler is
\* started, and while the creating task is inside the constructor chain the
\* new task gets the processor only if the creator waits or the new task's
\* priority is not below the creator's (above: preemption; equal: time slice).
DispatchAllowed(o) ==
  /\ sched
  /\ life[o] = "constructing" => (owner[o] # "running" \/ tprio[o] >= ownerPrio[o])

\* The kernel dispatches the new task under that rule.
TaskStartSched(o) == DispatchAllowed(o) /\ TaskStart(o)

NextSched ==
  \/ StartScheduler
  \/ \E o \in Objs :
    \/ \E tier \in Tiers, ok \in BOOLEAN, prior \in HandleValues :
         CtorBegin(o, tier, ok, prior)
    \/ CtorBlock(o)
    \/ CtorWake(o)
    \/ CtorFinish(o)
    \/ TaskStartSched(o)
    \/ TaskReturns(o)
    \/ TaskfunClear(o)
    \/ TaskfunSelfDelete(o)
    \/ TaskfunDelay(o)
    \/ TaskfunWake(o)

SpecSched == InitWith(1..LifeLevels, FALSE, 0..LifeLevels) /\ [][NextSched]_vars


\* ================================================================ claims
Built(o) == life[o] # "unconstructed" /\ created[o] # NULL
\* no object was left holding an indeterminate handle by a failed creation
NoFailedCreate == \A p \in Objs : life[p] # "unconstructed" => created[p] # NULL

\* C1: with deletion enabled, a Task that was created and then destroyed has
\* had exactly one vTaskDelete call from its destructor, and a second run of
\* the destructor finds the handle absent (it goes no further than the test)
\* and leaves the total at one.
C1_DestroyTwiceDeletesOnce ==
  \A o \in Objs :
    (INCLUDE_vTaskDelete /\ kind[o] = "Task" /\ Built(o) /\ NoFailedCreate) =>
      /\ (life[o] = "destroyed" => dtorCalls[o] = 1)
      /\ (dtorRuns[o] = 2 => life[o] = "destroyed")

\* C2: with deletion enabled the trampoline calls vTaskDelete(0) only from the
\* state in which it has already stored 0 in `handle`, and once it has made
\* that call its task never takes another step (and `handle` stays absent).
C2_ClearThenSelfDelete ==
  [][\A o \in Objs :
       /\ (selfDel'[o] /\ ~selfDel[o]) =>
            (INCLUDE_vTaskDelete /\ tpc[o] = "cleared" /\ handle[o] = NULL)
       /\ selfDel[o] =>
            (tpc[o] = "deleted" /\ tpc'[o] = "deleted" /\ handle'[o] = NULL)]_vars

C2_Witness ==
  \E o \in Objs :
    INCLUDE_vTaskDelete /\ kind[o] = "TaskClass" /\ selfDel[o] /\ tpc[o] = "deleted"
    /\ handle[o] = NULL /\ created[o] # NULL

\* C3: with deletion enabled, however the return path of o's task interleaves
\* with o's destructor, at most one vTaskDelete call targets the task created
\* for o, and the destructor never passes vTaskDelete a handle whose task is
\* already deleted.
C3_DeletedOnceInEveryInterleaving ==
  \A o \in Objs :
    (INCLUDE_vTaskDelete /\ kind[o] = "TaskClass" /\ Built(o) /\ NoFailedCreate) =>
      (hits[o] <= 1 /\ ~staleDel[o])

\* C4: with deletion enabled, a destructor that starts after the trampoline
\* has finished its end-of-life handling finds `handle` absent and calls
\* vTaskDelete not at all.
C4_DtorAfterEndOfLife ==
  \A o \in Objs :
    (INCLUDE_vTaskDelete /\ eolFirst[o]) =>
      (life[o] = "destroyed" /\ dtorCalls[o] = 0 /\ tested[o] = NULL)

C4_Witness ==
  \E o \in Objs :
    INCLUDE_vTaskDelete /\ eolFirst[o] /\ life[o] = "destroyed" /\ selfDel[o]
    /\ dtorRuns[o] = 1

\* C5: with deletion disabled, once task() has returned the trampoline stays
\* in its loop for ever (about to call vTaskDelay or blocked in it): it never
\* leaves the entry function, calls no vTaskDelete and never writes `handle`.
InFallback(o) == tpc[o] \in {"returned", "loop", "delaying"}

C5_FallbackLoopForEver ==
  [][\A o \in Objs :
       (~INCLUDE_vTaskDelete /\ InFallback(o)) =>
         /\ InFallback(o)'
         /\ tpc'[o] # tpc[o] => tpc'[o] = (IF tpc[o] = "delaying" THEN "loop" ELSE "delaying")
         /\ handle'[o] = handle[o]
         /\ selfDel'[o] = selfDel[o] /\ hits'[o] = hits[o]]_vars

C5_Witness ==
  \E o \in Objs :
    ~INCLUDE_vTaskDelete /\ tpc[o] = "loop" /\ handle[o] = created[o]
    /\ life[o] = "destroyed"

\* C6: for every configured level count N >= 1 the six tiers are ordered
\* Idle <= Low <= HMI <= Mid <= High <= Highest with Idle = 0 and
\* Highest = N-1, so each lies in 0..N-1, and so does the priority of every
\* task created or re-prioritised with a tier.
C6_TiersOrdered ==
  /\ configMAX_PRIORITIES >= 1
  /\ TaskPrio_Idle = 0
  /\ TaskPrio_Highest = configMAX_PRIORITIES - 1
  /\ \A i \in 1..5 : TaskPriority[i] <= TaskPriority[i + 1]
  /\ \A i \in Tiers : TaskPriority[i] \in 0..(configMAX_PRIORITIES - 1)
  /\ \A o \in Objs : Alive(o) => tprio[o] \in 0..(configMAX_PRIORITIES - 1)

C6_Witness ==
  /\ configMAX_PRIORITIES = MaxLevels
  /\ \E o, p \in Objs :
       /\ Alive(o) /\ Alive(p)
       /\ tprio[o] = TaskPrio_HMI /\ tprio[p] = TaskPrio_Mid
       /\ tprio[o] < tprio[p]

\* C7: the enum computes the documented table: N=1 all 0; N=3 (0,1,1,1,2,2);
\* N=4 (0,1,1,2,3,3); N=5 (0,1,1,2,3,4); N=6 (0,1,2,3,4,5); N>6
\* (0,1,2,N div 2,N-2,N-1), so N=10 (0,1,2,5,8,9).
C7_DocumentedTable ==
  LET N == configMAX_PRIORITIES IN
  /\ N = 1 => TaskPriority = <<0, 0, 0, 0, 0, 0>>
  /\ N = 3 => TaskPriority = <<0, 1, 1, 1, 2, 2>>
  /\ N = 4 => TaskPriority = <<0, 1, 1, 2, 3, 3>>
  /\ N = 5 => TaskPriority = <<0, 1, 1, 2, 3, 4>>
  /\ N = 6 => TaskPriority = <<0, 1, 2, 3, 4, 5>>
  /\ N > 6 => TaskPriority = <<0, 1, 2, N \div 2, N - 2, N - 1>>
  /\ N = 10 => TaskPriority = <<0, 1, 2, 5, 8, 9>>

C7_Witness ==
  /\ configMAX_PRIORITIES = 10
  /\ \E o, p \in Objs : Alive(o) /\ Alive(p) /\ tprio[o] = 5 /\ tprio[p] = 8

\* C8 as claimed: for N = 2 the tiers are Idle=0, Low=1, HMI=1, Mid=1, High=0,
\* Highest=1.
C8_TwoLevels_Claimed ==
  configMAX_PRIORITIES = 2 => TaskPriority = <<0, 1, 1, 1, 0, 1>>

\* C8 as amended: for N = 2 the tiers are Idle=0, Low=1, HMI=1, Mid=1, High=1,
\* Highest=1 (High = N-1-0, as in the header's table).
C8_TwoLevels ==
  configMAX_PRIORITIES = 2 => TaskPriority = <<0, 1, 1, 1, 1, 1>>

C8_Witness ==
  /\ configMAX_PRIORITIES = 2
  /\ \E o, p \in Objs :
       Alive(o) /\ Alive(p) /\ tprio[o] = TaskPrio_High /\ tprio[p] = TaskPrio_Idle

\* C9: when xTaskCreate fails in the constructor (no task is produced), the
\* stored handle is absent: getHandle() returns NULL, and with deletion
\* enabled the destructor calls vTaskDelete not at all.
C9_FailedCreateLeavesNull ==
  \A o \in Objs :
    (life[o] # "unconstructed" /\ created[o] = NULL) =>
      (getHandle(o) = NULL /\ life[o] # "destructing" /\ dtorCalls[o] = 0)

\* C10 as claimed: between construction and destruction every Task's handle
\* designates exactly one live task, and no two Tasks store the same handle,
\* also after priority, suspend and resume calls and after the body returned.
C10_OneLiveTaskPerHandle_Claimed ==
  \A o \in Objs :
    (life[o] = "constructed" /\ Built(o) /\ NoFailedCreate) =>
      /\ handle[o] \in Slots /\ Cardinality(TaskAt(handle[o])) = 1
      /\ \A p \in Objs \ {o} : life[p] = "constructed" => handle[p] # handle[o]

\* C10 as amended: between a successful construction and destruction a Task's
\* handle is the one xTaskCreate returned for it, or absent once its own
\* trampoline has cleared it (deletion enabled, body returned); while the
\* object's task is live a non-absent handle designates exactly that task,
\* and two such objects whose tasks are both live never store the same
\* handle.  Priority, suspend and resume calls do not change this.
C10_HandleOwnOrCleared ==
  \A o \in Objs :
    (life[o] = "constructed" /\ Built(o)) =>
      /\ handle[o] \in {created[o], NULL}
      /\ handle[o] = NULL =>
           (INCLUDE_vTaskDelete /\ kind[o] = "TaskClass"
            /\ tpc[o] \in {"cleared", "deleted"})
      /\ (Alive(o) /\ handle[o] # NULL) => TaskAt(handle[o]) = {o}
      /\ \A p \in Objs \ {o} :
           (life[p] = "constructed" /\ Built(p) /\ Alive(o) /\ Alive(p)
            /\ handle[o] # NULL) => handle[p] # handle[o]

C10_Witness ==
  \E o, p \in Objs :
    /\ o # p /\ life[o] = "constructed" /\ life[p] = "constructed"
    /\ selfDel[o] /\ handle[o] = NULL
    /\ Alive(p) /\ tsusp[p] /\ tprio[p] = 1 /\ handle[p] = created[p]

\* ---------------------------------------------------------------- C11
MemberOps == {"suspend", "resume", "priority_set", "priority_get"}

\* C11 (as claimed): a call of suspend(), resume() or priority (set or get) on
\* a Task object is addressed to the task that object owns and leaves the
\* calling context as it was: neither suspended nor given another priority.
\* Refuted: once taskfun has stored 0 in handle, suspend() is vTaskSuspend(0)
\* and priority(p) is vTaskPrioritySet(0, p), which the kernel applies to the
\* caller.
C11_ActsOnOwnedNeverCaller ==
  [][step'.op \in MemberOps =>
       /\ owner' = owner
       /\ ownerPrio' = ownerPrio
       /\ TaskAt(step'.calls[1][2]) = {step'.obj}]_vars

\* ---------------------------------------------------------------- C12
\* C12: when INCLUDE_vTaskDelete is 0 the destructor calls no kernel
\* primitive, and the task the constructor created is still in the kernel's
\* task table, under its handle, after the object has been destroyed.
C12_TaskOutlivesObject ==
  ~INCLUDE_vTaskDelete =>
    /\ step.op = "~Task" => step.calls = <<>>
    /\ \A o \in Objs :
         /\ dtorCalls[o] = 0
         /\ life[o] # "destructing"
         /\ (life[o] = "destroyed" /\ created[o] # NULL) =>
              (Alive(o) /\ TaskAt(created[o]) = {o})

\* An object destroyed with deletion disabled whose task is dispatched, and
\* enters task(), only afterwards.
C12_Witness ==
  /\ ~INCLUDE_vTaskDelete
  /\ \E o \in Objs :
       /\ life[o] = "destroyed"
       /\ dtorRuns[o] = 1
       /\ step.op = "task"
       /\ step.obj = o
       /\ tpc[o] = "task"

\* ---------------------------------------------------------------- C13
\* C13: resume_ISR() calls xTaskResumeFromISR once, with the stored handle,
\* and nothing else; it returns true exactly when that call returned pdTRUE
\* (a context switch should be requested) and false when it returned
\* pdFALSE; the stored handle is the same afterwards.
C13_ResumeISRPassThrough ==
  [][step'.op = "resume_ISR" =>
       /\ Len(step'.calls) = 1
       /\ step'.calls[1][1] = "xTaskResumeFromISR"
       /\ step'.calls[1][2] = handle[step'.obj]
       /\ step'.ret = <<step'.calls[1][3] = pdTRUE>>
       /\ handle' = handle
       /\ UNCHANGED <<tpc, tprio, created, owner, ownerPrio, life>>]_vars

\* resume_ISR() has just readied the object's own suspended task and
\* reported that a switch is needed.
C13_Witness ==
  /\ step.op = "resume_ISR"
  /\ step.ret = <<TRUE>>
  /\ step.calls[1][3] = pdTRUE
  /\ TaskAt(handle[step.obj]) = {step.obj}
  /\ ~tsusp[step.obj]
  /\ ~fault

\* ---------------------------------------------------------------- C14
\* The kernel primitive behind each pass-through member function.
PrimitiveOf ==
  [priority_get |-> "uxTaskPriorityGet", priority_set |-> "vTaskPrioritySet",
   suspend |-> "vTaskSuspend", resume |-> "vTaskResume",
   resume_ISR |-> "xTaskResumeFromISR"]

\* C14: no operation repeats a kernel call.  The constructor calls
\* xTaskCreate exactly once, whether it succeeds or fails; priority() get and
\* set, suspend(), resume() and resume_ISR() each call their own primitive
\* exactly once, with the stored handle; the destructor calls vTaskDelete at
\* most once per run and nothing else; getHandle() calls nothing; and no
\* operation but the constructor calls xTaskCreate.
C14_OneCallPerOperation ==
  [][LET s == step' IN
       /\ s.op = "Task" => (Len(s.calls) = 1 /\ s.calls[1][1] = "xTaskCreate")
       /\ s.op \in DOMAIN PrimitiveOf =>
            /\ Len(s.calls) = 1
            /\ s.calls[1][1] = PrimitiveOf[s.op]
            /\ s.calls[1][2] = handle[s.obj]
       /\ s.op = "~Task" =>
            /\ Len(s.calls) <= 1
            /\ \A i \in 1..Len(s.calls) : s.calls[i][1] = "vTaskDelete"
       /\ s.op = "getHandle" => s.calls = <<>>
       /\ s.op # "Task" => \A i \in 1..Len(s.calls) : s.calls[i][1] # "xTaskCreate"
       /\ \A o \in Objs : dtorCalls'[o] <= dtorRuns'[o]]_vars

\* A constructor whose xTaskCreate failed: one call was made, no task exists.
C14_Witness ==
  /\ step.op = "Task"
  /\ Len(step.calls) = 1
  /\ life[step.obj] = "constructed"
  /\ created[step.obj] = NULL
  /\ tpc[step.obj] = "none"

\* ---------------------------------------------------------------- C15
\* The note of TaskClass::TaskClass: the object is built before the scheduler
\* starts, or with a priority strictly below its creator's, and no constructor
\* of the chain has blocked.
C15_Precondition(o) ==
  /\ ~ctorBlocked[o]
  /\ ~sched \/ tprio[o] < ownerPrio[o]

AfterReturn == {"returned", "cleared", "loop", "delaying", "deleted"}

\* C16: taskfun enters task() once per created task, coming from its entry,
\* and on the TaskClass object that created the task (the `this` passed as
\* parm); a task is never back at its entry; and once task() has returned
\* the task stays after it, with deletion enabled and without: task() is
\* not entered again and nothing leads back into it.
C16_TaskOnceThenTerminal ==
  [][\A t \in Objs :
       /\ (tpc'[t] = "task" /\ tpc[t] # "task") =>
            /\ tpc[t] = "entry"
            /\ kind[t] = "TaskClass" =>
                 (step'.op = "task" /\ step'.obj = t /\ parm[t] = t)
       /\ tpc'[t] = "entry" => tpc[t] \in {"none", "entry"}
       /\ tpc[t] \in AfterReturn => tpc'[t] \in AfterReturn]_vars

\* With deletion disabled, a TaskClass task whose task() ran on its own
\* object, returned, and has since come round the delay loop again.
C16_Witness ==
  \E t \in Objs :
    /\ ~INCLUDE_vTaskDelete
    /\ kind[t] = "TaskClass"
    /\ parm[t] = t
    /\ step.op = "taskfun_loop"
    /\ step.obj = t
    /\ tpc[t] = "loop"

\* ---------------------------------------------------------------- C17
\* C17: for every priority value p in 0 .. configMAX_PRIORITIES-1, a named
\* tier or not, priority(p) on a Task whose handle is a live task hands p to
\* the kernel as it is, priority() returns the value the kernel reports as it
\* is, and so priority() called right after priority(p) returns p.
C17_SetThenGet ==
  [][LET o == step'.obj IN
       /\ (step'.op = "priority_set" /\ TaskAt(handle[o]) # {}) =>
            \A t \in TaskAt(handle[o]) : tprio'[t] = step'.calls[1][3]
       /\ (step'.op = "priority_get" /\ TaskAt(handle[o]) # {}) =>
            \E t \in TaskAt(handle[o]) : step'.ret = <<tprio[t]>>
       /\ (/\ step.op = "priority_set"
           /\ step'.op = "priority_get"
           /\ step'.obj = step.obj
           /\ TaskAt(handle[o]) # {}) =>
            step'.ret = <<step.calls[1][3]>>]_vars

\* With ten levels, priority() has just returned 7, a value that is no named
\* tier and that only priority(7) can have given the task.
C17_Witness ==
  /\ configMAX_PRIORITIES = 10
  /\ step.op = "priority_get"
  /\ step.ret = <<7>>
  /\ TaskAt(handle[step.obj]) = {step.obj}
  /\ 7 \notin {TaskPriority[i] : i \in Tiers}

\* ---------------------------------------------------------------- C18
ReadOnlyOps == {"getHandle", "priority_get", "priority_set", "suspend", "resume",
                "resume_ISR"}

\* C18: an object's stored handle changes only in its constructor (written
\* by xTaskCreate) and in taskfun's `handle = 0` after task() has returned,
\* which exists only with INCLUDE_vTaskDelete; getHandle(), priority() get
\* and set, suspend(), resume() and resume_ISR() leave every handle as it
\* was; getHandle() returns the stored value, so a second getHandle() right
\* after a first returns the same.
C18_HandleWriters ==
  [][/\ \A o \in Objs :
          handle'[o] # handle[o] =>
            \/ step'.op = "Task" /\ step'.obj = o
            \/ step'.op = "taskfun_clear" /\ step'.obj = o /\ INCLUDE_vTaskDelete
     /\ step'.op \in ReadOnlyOps => handle' = handle
     /\ step'.op = "getHandle" => step'.ret = <<handle[step'.obj]>>
     /\ (step.op = "getHandle" /\ step'.op = "getHandle" /\ step'.obj = step.obj) =>
          step'.ret = step.ret]_vars

\* getHandle() has just returned the handle of the object's own live task,
\* unchanged by a suspend() and what followed it.
C18_Witness ==
  /\ step.op = "getHandle"
  /\ step.ret = <<created[step.obj]>>
  /\ created[step.obj] # NULL
  /\ tsusp[step.obj]
  /\ Alive(step.obj)

====
